---- MODULE Spec2Model ----
(***************************************************************************)
(* Personal Task Manager: the persistence layer (database.py), credential  *)
(* management (user_auth.py) and the task repository (task.py), as a state *)
(* machine over the two tables of task_manager.db.                         *)
(*                                                                         *)
(* Conventions.                                                            *)
(*   - A table is a set of rows (records); a SELECT without ORDER BY       *)
(*     returns its rows in rowid order, which is how SQLite scans a rowid  *)
(*     table that has no usable index.                                     *)
(*   - Optional[int] is a sequence: <<>> is None, <<i>> is the integer i.  *)
(*   - A due date "YYYY-MM-DD" is the tuple <<Y, M, D>>; the text order of *)
(*     ISO dates is the lexicographic order of these tuples.               *)
(*   - A bcrypt hash is [salt, digest]; the digest is a function of the    *)
(*     salt and the password that is one-to-one on the passwords used.     *)
(***************************************************************************)
EXTENDS Integers, Sequences, FiniteSets, TLC

\* ------------------------------------------------------------------ bounds

\* Concurrent UI sessions (each runs one request at a time).
MaxSessions == 2
\* Rows the tasks table may ever have been given (caps the AUTOINCREMENT counter).
MaxTasks == 2
\* Connections that may be open at once (caps the count of connections left open).
MaxOpen == 3

\* ------------------------------------------------------------ input domains

Sessions == 1..MaxSessions

Emails == {"ann@x.io", "bob@x.io"}
Usernames == {"ann", "bob"}
Passwords == {"pw!01", "pw!02"}
\* Salts bcrypt.gensalt() may draw.
Salts == {"$2b$12$saltA", "$2b$12$saltB"}

\* Python's None passed where a text is expected.
NoneText == "<None>"

\* Optional[int]
None == <<>>
Some(x) == <<x>>

\* ------------------------------------------------------------------- state

VARIABLES
    users,      \* rows of table users
    userSeq,    \* sqlite_sequence entry of users (AUTOINCREMENT)
    tasks,      \* rows of table tasks
    taskSeq,    \* sqlite_sequence entry of tasks (AUTOINCREMENT)
    createdIds, \* history: every id a tasks row was ever inserted with
    reg,        \* per session: the register_user call between its SELECT and its INSERT
    last,       \* the call that returned last: its name, key arguments and outcome
    schema,     \* the tables task_manager.db has
    locked,     \* another process holds the lock of task_manager.db
    open,       \* connections opened (sqlite3.connect) and not closed yet
    ui          \* per session: st.session_state

vars == <<users, userSeq, tasks, taskSeq, createdIds, reg, last, schema, locked, open, ui>>

\* The store-level state a function of database.py, user_auth.py or task.py
\* can read or write: everything but the sessions' st.session_state.
\* (A function called outside any page leaves ui alone: see the specifications.)
db == <<users, userSeq, tasks, taskSeq, createdIds>>

\* ------------------------------------------------------------- schema (DDL)

\* CREATE TABLE users (id, username, email, password)
UsersColumns == {"id", "username", "email", "password"}

\* CREATE TABLE tasks (id, user_id, title, description, due_date, priority, status)
TasksColumns == <<"id", "user_id", "title", "description", "due_date", "priority", "status">>

\* username TEXT NOT NULL UNIQUE, email TEXT NOT NULL UNIQUE: the UNIQUE
\* constraints a new users row with this username and email would violate.
UsersUniqueNoEmail(rows, username, email) ==
    {c \in {"username"} : \E r \in rows : r.username = username}

UsersUnique(rows, username, email) ==
    {c \in {"username"} : \E r \in rows : r.username = username}
    \cup {c \in {"email"} : \E r \in rows : r.email = email}

Max(S) == CHOOSE m \in S : \A x \in S : x <= m

\* A rowid table without AUTOINCREMENT: one more than the largest rowid now in
\* the table, so the id of a deleted last row is given out again.
RowidReuse(rows, seq) == Max({r.id : r \in rows} \cup {0}) + 1

\* id INTEGER PRIMARY KEY AUTOINCREMENT: one more than the largest rowid the
\* table has ever held (sqlite_sequence keeps it).
AutoIncrement(rows, seq) == Max({r.id : r \in rows} \cup {seq}) + 1

\* The tables create_tables makes.
Tables == {"users", "tasks"}

\* The sqlite3.OperationalError with which a statement on this table fails
\* before it reads or writes a row ("" when it does not): the database file is
\* locked by another process, or the table is not there.
StorageError(table) ==
    IF locked THEN "database is locked"
    ELSE IF table \notin schema THEN "no such table: " \o table
    ELSE ""

\* The errors a statement on this table can fail with, given the constraints
\* (as error messages) its row would violate.
StatementErrors(table, violations) ==
    IF StorageError(table) # "" THEN {StorageError(table)} ELSE violations

\* execute_query keeps no error to itself: this one logs it and returns.
ExecuteSwallow(errors) == [raised |-> FALSE, committed |-> errors = {}]

\* execute_query: cursor.execute and conn.commit; a sqlite3.Error is logged and
\* re-raised, and the connection closes with nothing committed.
execute_query(errors) == [raised |-> errors # {}, committed |-> errors = {}]

\* -------------------------------------------------------------- user_auth

\* bcrypt.hashpw(password.encode(), salt)
Hashpw(password, salt) == [salt |-> salt, digest |-> <<salt, password>>]

\* hash_password: the salt is drawn by bcrypt.gensalt() at the call site.
hash_password(password, salt) == Hashpw(password, salt)

\* bcrypt.checkpw: rehash with the stored salt and compare.
Checkpw(password, hashed) == Hashpw(password, hashed.salt) = hashed

\* verify_password
verify_password(password, hashed) == Checkpw(password, hashed)

\* SELECT ... FROM users WHERE <column> = <value>: the matching rows, or the
\* OperationalError "no such column" of a column the table does not have.
SelectUsersWhere(column, value) ==
    IF StorageError("users") # ""
    THEN [error |-> StorageError("users"), rows |-> {}]
    ELSE IF column \notin UsersColumns
    THEN [error |-> "no such column: " \o column, rows |-> {}]
    ELSE [error |-> "", rows |-> {r \in users : r[column] = value}]

\* The outcome messages of register_user.
RegisteredOk == "User registered successfully"
EmailTaken == "Email already registered"
RegistrationError(column) == "Registration error: UNIQUE constraint failed: users." \o column
\* except Exception as e: return f"Registration error: {str(e)}"
RegistrationFailed(error) == "Registration error: " \o error

\* What the model keeps of the last call that returned: op, the function; key, its
\* identifying text argument (email of register_user, identifier of the
\* authenticate functions); args, the field tuple a task function was given
\* (<<>> when it takes none); id, the row id it wrote or was given; result,
\* the Optional[int] it returned; msg, the message it returned or raised
\* with; raised, whether it raised; rowcount, the rows its statement changed.
\* rows is the list of fetched rows a query function returned (<<>> otherwise).
NoCall ==
    [op |-> "none", key |-> "", args |-> <<>>, id |-> None, result |-> None, msg |-> "",
     raised |-> FALSE, rowcount |-> 0, rows |-> <<>>]

Returned(op, key, id, result, msg, raised, rowcount) ==
    [op |-> op, key |-> key, args |-> <<>>, id |-> id, result |-> result, msg |-> msg,
     raised |-> raised, rowcount |-> rowcount, rows |-> <<>>]

ReturnedTask(op, f, id, msg, raised, rowcount) ==
    [op |-> op, key |-> "", args |-> <<f>>, id |-> id, result |-> None, msg |-> msg,
     raised |-> raised, rowcount |-> rowcount, rows |-> <<>>]

\* register_user's pre-check: SELECT id FROM users WHERE email = ? has a row.
EmailRegisteredW(email) == FALSE

EmailRegistered(email) == SelectUsersWhere("email", email).rows # {}

\* register_user up to its first return: the SELECT by email; a hit returns
\* "Email already registered", otherwise the call goes on to its INSERT.
register_user_check(s, email, password, username) ==
    /\ reg[s] = None
    /\ IF StorageError("users") # ""
       THEN /\ last' = Returned("register_user", email, None, None,
                                RegistrationFailed(StorageError("users")), FALSE, 0)
            /\ UNCHANGED <<reg, open>>
       ELSE IF EmailRegistered(email)
       THEN /\ last' = Returned("register_user", email, None, None, EmailTaken, FALSE, 0)
            /\ UNCHANGED <<reg, open>>
       ELSE /\ reg' = [reg EXCEPT ![s] = Some([email |-> email, password |-> password,
                                                 username |-> username])]
            /\ open' = open + 1
            /\ last' = last
    /\ UNCHANGED <<db, schema, locked>>

\* register_user from its INSERT on: the store rejects a row that violates a
\* UNIQUE constraint (caught: "Registration error: ..."), else the row is
\* committed with a fresh salted hash. The finally clause closes the
\* connection on every path.
register_user_insert(s) ==
    /\ reg[s] # None
    /\ LET call == reg[s][1]
           broken == UsersUnique(users, call.username, call.email)
       IN  IF StorageError("users") # ""
           THEN /\ last' = Returned("register_user", call.email, None, None,
                                    RegistrationFailed(StorageError("users")), FALSE, 0)
                /\ UNCHANGED <<users, userSeq>>
           ELSE IF broken # {}
           THEN /\ \E c \in broken :
                     last' = Returned("register_user", call.email, None, None,
                                      RegistrationError(c), FALSE, 0)
                /\ UNCHANGED <<users, userSeq>>
           ELSE \E salt \in Salts :
                /\ users' = users \cup {[id |-> AutoIncrement(users, userSeq),
                                         username |-> call.username,
                                         email |-> call.email,
                                         password |-> hash_password(call.password, salt)]}
                /\ userSeq' = AutoIncrement(users, userSeq)
                /\ last' = Returned("register_user", call.email, Some(AutoIncrement(users, userSeq)),
                                    None, RegisteredOk, FALSE, 1)
    /\ reg' = [reg EXCEPT ![s] = None]
    /\ open' = open - 1
    /\ UNCHANGED <<tasks, taskSeq, createdIds, schema, locked>>

\* The first row of a result set (cursor.fetchone()); rows come in rowid order.
FetchOne(rows) == CHOOSE r \in rows : \A q \in rows : r.id <= q.id

\* The body shared by validate_user and login_user: look the row up by the
\* given column, check the password against the stored hash.
AuthenticateByNoVerify(column, identifier, password) ==
    LET found == SelectUsersWhere(column, identifier)
    IN  IF found.error # ""
        THEN [result |-> None, raised |-> TRUE, msg |-> found.error]
        ELSE IF found.rows # {}
             THEN [result |-> Some(FetchOne(found.rows).id), raised |-> FALSE, msg |-> ""]
             ELSE [result |-> None, raised |-> FALSE, msg |-> ""]

AuthenticateBy(column, identifier, password) ==
    LET found == SelectUsersWhere(column, identifier)
    IN  IF found.error # ""
        THEN [result |-> None, raised |-> TRUE, msg |-> found.error]
        ELSE IF found.rows # {} /\ verify_password(password, FetchOne(found.rows).password)
             THEN [result |-> Some(FetchOne(found.rows).id), raised |-> FALSE, msg |-> ""]
             ELSE [result |-> None, raised |-> FALSE, msg |-> ""]

\* validate_user: SELECT id, password FROM users WHERE username = ?
\* (one step: the finally clause closes the connection on every path, an
\* sqlite3.Error of the SELECT leaves the function after it).
validate_user(username, password) ==
    /\ LET r == AuthenticateBy("username", username, password)
       IN  last' = Returned("validate_user", username, None, r.result, r.msg, r.raised, 0)
    /\ UNCHANGED <<db, reg, schema, locked, open>>

\* login_user: SELECT id, password FROM users WHERE name = ?
login_user(email, password) ==
    /\ LET r == AuthenticateBy("name", email, password)
       IN  last' = Returned("login_user", email, None, r.result, r.msg, r.raised, 0)
    /\ UNCHANGED <<db, reg, schema, locked, open>>

\* ------------------------------------------------------------ database.py

\* CREATE TABLE without IF NOT EXISTS: an error when the table is there.
CreateTable(table, rows) ==
    [error |-> IF table \in schema THEN "table " \o table \o " already exists" ELSE "",
     rows |-> rows]

\* CREATE TABLE IF NOT EXISTS <table>: a table that is there is left as it
\* is, with its rows; a table that is not is made, empty. No error either way.
CreateTableIfNotExists(table, rows) ==
    [error |-> "", rows |-> IF table \in schema THEN rows ELSE {}]

\* create_tables: connect, CREATE TABLE IF NOT EXISTS users, then tasks,
\* commit, close. Nothing catches an sqlite3.Error of a statement, and no
\* finally clause closes the connection: the error leaves the function with
\* the connection open.
create_tables ==
    /\ LET u == CreateTableIfNotExists("users", users)
           t == CreateTableIfNotExists("tasks", tasks)
           error == IF locked THEN "database is locked"
                    ELSE IF u.error # "" THEN u.error ELSE t.error
       IN  IF error # ""
           THEN /\ open < MaxOpen
                /\ open' = open + 1
                /\ last' = Returned("create_tables", "", None, None, error, TRUE, 0)
                /\ UNCHANGED <<users, tasks, schema>>
           ELSE /\ users' = u.rows
                /\ tasks' = t.rows
                /\ schema' = schema \cup Tables
                /\ open' = open
                /\ last' = Returned("create_tables", "", None, None, "", FALSE, 0)
    /\ UNCHANGED <<userSeq, taskSeq, createdIds, reg, locked>>

\* Another process takes the lock of the database file (a transaction it
\* keeps open past the 5 s busy timeout of sqlite3.connect), or gives it back:
\* while it holds it, a statement fails with sqlite3.OperationalError.
lock == ~locked /\ locked' = TRUE /\ UNCHANGED <<db, reg, last, schema, open>>

unlock == locked /\ locked' = FALSE /\ UNCHANGED <<db, reg, last, schema, open>>

\* The text order of ISO dates "YYYY-MM-DD".
DateLE(a, b) ==
    \/ a[1] < b[1]
    \/ a[1] = b[1] /\ a[2] < b[2]
    \/ a[1] = b[1] /\ a[2] = b[2] /\ a[3] <= b[3]

\* One fetched row of SELECT * FROM tasks: the columns in table order.
RowTuple(r) == [i \in 1..Len(TasksColumns) |-> r[TasksColumns[i]]]

\* The position (from 1) of a column in a fetched tasks row.
Col(name) == CHOOSE i \in 1..Len(TasksColumns) : TasksColumns[i] = name

RECURSIVE InRowidOrder(_)
InRowidOrder(rows) ==
    IF rows = {} THEN <<>>
    ELSE LET r == CHOOSE x \in rows : \A y \in rows : x.id <= y.id
         IN  <<RowTuple(r)>> \o InRowidOrder(rows \ {r})

\* fetch_query lets the error through, as execute_query does.
FetchQueryReraise(matching) ==
    IF StorageError("tasks") # ""
    THEN [rows |-> <<>>, raised |-> TRUE, error |-> StorageError("tasks")]
    ELSE [rows |-> InRowidOrder(matching), raised |-> FALSE, error |-> ""]

\* fetch_query on a SELECT * FROM tasks WHERE ...: cursor.fetchall() of the
\* rows the WHERE clause keeps; a sqlite3.Error is logged and [] returned.
FetchQuery(matching) ==
    IF StorageError("tasks") # ""
    THEN [rows |-> <<>>, raised |-> FALSE, error |-> StorageError("tasks")]
    ELSE [rows |-> InRowidOrder(matching), raised |-> FALSE, error |-> ""]

\* The list fetch_query returns.
fetch_query(matching) == FetchQuery(matching).rows

\* title TEXT NOT NULL: the NOT NULL constraints a tasks row with this title violates.
TasksNotNull(title) == {c \in {"title"} : title = NoneText}

IntegrityError(column) == "NOT NULL constraint failed: tasks." \o column

\* The errors an INSERT or UPDATE that sets this title can fail with.
TasksErrors(title) ==
    StatementErrors("tasks", {IntegrityError(c) : c \in TasksNotNull(title)})

\* ----------------------------------------------------------------- task.py

\* The field tuples (title, description, due_date, priority, status) the
\* callers pass: the spec's round-trip example, one tuple differing from it in
\* each single field, every status, every priority, and a None title.
Field(title, description, due_date, priority, status) ==
    [title |-> title, description |-> description, due_date |-> due_date,
     priority |-> priority, status |-> status]

Priorities == {"Low", "Medium", "High"}
Statuses == {"Pending", "To Do", "In Progress", "Completed"}

FieldTuples ==
    { Field("Buy milk", "", <<2025, 3, 1>>, "Low", "Pending"),
      Field("", "", <<2025, 3, 1>>, "Low", "Pending"),
      Field("Buy milk", "2% fat", <<2025, 3, 1>>, "Low", "Pending"),
      Field("Buy milk", "", <<2025, 1, 15>>, "Low", "Pending"),
      Field("Buy milk", "", <<2025, 3, 1>>, "High", "Pending"),
      Field("Buy milk", "", <<2025, 3, 1>>, "Low", "To Do"),
      Field("Buy milk", "", <<2025, 3, 1>>, "Low", "In Progress"),
      Field("Buy milk", "", <<2025, 3, 1>>, "Low", "Completed"),
      Field("Pay rent", "by transfer", <<2025, 1, 15>>, "Medium", "Completed"),
      Field(NoneText, "", <<2025, 3, 1>>, "Low", "Pending") }

\* The user ids callers pass as owner, and the task ids they pass.
OwnerIds == {1, 2}
TaskIds == 1..MaxTasks

TaskRow(id, user_id, f) ==
    [id |-> id, user_id |-> user_id, title |-> f.title, description |-> f.description,
     due_date |-> f.due_date, priority |-> f.priority, status |-> f.status]

\* add_task_with_status: INSERT INTO tasks (...) VALUES (...) through
\* execute_query, which commits, or logs and re-raises the sqlite3.Error.
\* The function returns None.
add_task_with_status(user_id, f) ==
    /\ LET errors == TasksErrors(f.title)
           out == execute_query(errors)
           id == AutoIncrement(tasks, taskSeq)
       IN  IF ~out.committed
           THEN /\ \E e \in errors :
                     last' = ReturnedTask("add_task_with_status", f, None, e, out.raised, 0)
                /\ UNCHANGED <<tasks, taskSeq, createdIds>>
           ELSE /\ id <= MaxTasks
                /\ tasks' = tasks \cup {TaskRow(id, user_id, f)}
                /\ taskSeq' = id
                /\ createdIds' = createdIds \cup {id}
                /\ last' = ReturnedTask("add_task_with_status", f, Some(id), "",
                                        out.raised, 1)
    /\ UNCHANGED <<users, userSeq, reg, schema, locked, open>>

\* The SET clause of update_task_with_status applied to one row.
SetFieldsNoStatus(r, f) ==
    [r EXCEPT !.title = f.title, !.description = f.description,
              !.due_date = f.due_date, !.priority = f.priority]

SetFields(r, f) ==
    [r EXCEPT !.title = f.title, !.description = f.description,
              !.due_date = f.due_date, !.priority = f.priority, !.status = f.status]

\* update_task_with_status: UPDATE tasks SET title, description, due_date,
\* priority, status WHERE id = ?, through execute_query.
update_task_with_status(task_id, f) ==
    /\ LET hit == {r \in tasks : r.id = task_id}
           errors == IF hit = {} THEN StatementErrors("tasks", {}) ELSE TasksErrors(f.title)
           out == execute_query(errors)
       IN  IF ~out.committed
           THEN /\ \E e \in errors :
                     last' = ReturnedTask("update_task_with_status", f, Some(task_id),
                                          e, out.raised, 0)
                /\ tasks' = tasks
           ELSE /\ tasks' = (tasks \ hit) \cup {SetFields(r, f) : r \in hit}
                /\ last' = ReturnedTask("update_task_with_status", f, Some(task_id), "",
                                        out.raised, Cardinality(hit))
    /\ UNCHANGED <<users, userSeq, taskSeq, createdIds, reg, schema, locked, open>>

\* The rows DELETE FROM tasks WHERE id = ? removes.
DeleteHitNone(rows, task_id) == {}

\* DELETE FROM tasks, the WHERE clause lost.
DeleteHitAll(rows, task_id) == rows

DeleteHit(rows, task_id) == {r \in rows : r.id = task_id}

\* delete_task: DELETE FROM tasks WHERE id = ?, through execute_query.
delete_task(task_id) ==
    /\ LET errors == StatementErrors("tasks", {})
           out == execute_query(errors)
       IN  IF ~out.committed
           THEN /\ \E e \in errors :
                     last' = Returned("delete_task", "", Some(task_id), None, e,
                                      out.raised, 0)
                /\ tasks' = tasks
           ELSE /\ tasks' = tasks \ DeleteHit(tasks, task_id)
                /\ last' = Returned("delete_task", "", Some(task_id), None, "",
                                    out.raised, Cardinality(DeleteHit(tasks, task_id)))
    /\ UNCHANGED <<users, userSeq, taskSeq, createdIds, reg, schema, locked, open>>

\* get_tasks_by_user_id: SELECT * FROM tasks WHERE user_id = ?
get_tasks_by_user_id(user_id) == fetch_query({r \in tasks : r.user_id = user_id})

\* get_task_by_id on a given tasks table: SELECT * FROM tasks WHERE id = ?;
\* results[0] if results else None
TaskById(rows, task_id) ==
    LET results == fetch_query({r \in rows : r.id = task_id})
    IN  IF results # <<>> THEN Some(results[1]) ELSE None

\* get_task_by_id
get_task_by_id(task_id) == TaskById(tasks, task_id)

\* get_tasks_by_status: SELECT * FROM tasks WHERE status = ?
get_tasks_by_status(status) == fetch_query({r \in tasks : r.status = status})

\* The query functions of task.py, each one SELECT * FROM tasks WHERE ...
\* through fetch_query.
Queries ==
    {"get_tasks_by_user_id", "get_task_by_id", "get_tasks_by_priority",
     "get_tasks_by_due_date", "get_tasks_by_date_range",
     "get_tasks_by_title_or_description", "get_tasks_by_status"}

\* The search terms callers pass, and for each the texts of the model that
\* contain it (text LIKE '%term%').
SearchTerms == {"milk", "t"}
Like(text, term) ==
    CASE term = "milk" -> text \in {"Buy milk"}
      [] term = "t" -> text \in {"2% fat", "Pay rent", "by transfer"}

\* The arguments callers pass to each query function.
QueryArgs(query) ==
    CASE query = "get_tasks_by_user_id" -> {<<o>> : o \in OwnerIds}
      [] query = "get_task_by_id" -> {<<i>> : i \in TaskIds}
      [] query = "get_tasks_by_priority" -> {<<"Low">>, <<"Medium">>}
      [] query = "get_tasks_by_due_date" -> {<<<<2025, 3, 1>>>>}
      [] query = "get_tasks_by_date_range" -> {<<<<2025, 1, 1>>, <<2025, 1, 31>>>>}
      [] query = "get_tasks_by_title_or_description" -> {<<t>> : t \in SearchTerms}
      [] query = "get_tasks_by_status" -> {<<"Pending">>, <<"Completed">>}

\* The WHERE clause of each query function, on one row.
Where(query, args, r) ==
    CASE query = "get_tasks_by_user_id" -> r.user_id = args[1]
      [] query = "get_task_by_id" -> r.id = args[1]
      [] query = "get_tasks_by_priority" -> r.priority = args[1]
      [] query = "get_tasks_by_due_date" -> r.due_date = args[1]
      [] query = "get_tasks_by_date_range" ->
             DateLE(args[1], r.due_date) /\ DateLE(r.due_date, args[2])
      [] query = "get_tasks_by_title_or_description" ->
             Like(r.title, args[1]) \/ Like(r.description, args[1])
      [] query = "get_tasks_by_status" -> r.status = args[1]

\* A query function called as a step: last.rows is what it returns, the list
\* fetch_query gave it (for get_task_by_id, results[0] if results else None,
\* as an Optional).
task_query(query, args) ==
    /\ LET out == FetchQuery({r \in tasks : Where(query, args, r)})
       IN  last' = [op |-> query, key |-> "", args |-> args, id |-> None, result |-> None,
                    msg |-> out.error, raised |-> out.raised, rowcount |-> 0,
                    rows |-> IF query = "get_task_by_id" /\ out.rows # <<>>
                             THEN Some(out.rows[1]) ELSE out.rows]
    /\ UNCHANGED <<db, reg, schema, locked, open>>

\* ------------------------------------------------------------------ app.py

\* st.session_state after the initialisation at the top of the script; Logout
\* resets it to the same values.
SessionDefaults ==
    [logged_in |-> FALSE, user_id |-> None, edit_task_id |-> None,
     show_task_form |-> FALSE, auth_page |-> "login", current_page |-> "dashboard"]

\* The texts a login form is given as username (none typed, a registered
\* one, one nobody has) and as password, with the characters of each password.
FormUsernames == Usernames \cup {"", "eve"}
FormPasswords == Passwords \cup {"pw01", "p!"}
Chars(text) ==
    CASE text = "pw!01" -> <<"p", "w", "!", "0", "1">>
      [] text = "pw!02" -> <<"p", "w", "!", "0", "2">>
      [] text = "pw01" -> <<"p", "w", "0", "1">>
      [] text = "p!" -> <<"p", "!">>

\* validate_password: len(password) >= 5 and a character of "!@#$%^&*()-+"
validate_password(password) ==
    /\ Len(Chars(password)) >= 5
    /\ \E k \in 1..Len(Chars(password)) :
          Chars(password)[k] \in {"!", "@", "#", "$", "%", "^", "&", "*", "(", ")", "-", "+"}

\* if user_id: holds of any Optional[int] but None and 0, whatever it is.
TruthyAlways(result) == TRUE

\* if user_id: (Python truth of an Optional[int]: not None, not 0)
Truthy(result) == result # None /\ result[1] # 0

\* The page main() renders for a session: the authentication pages unless
\* logged_in, else the page current_page names (none for any other value).
Page(s) ==
    IF ~ui[s].logged_in THEN "auth"
    ELSE IF ui[s].current_page \in {"dashboard", "task_form"} THEN ui[s].current_page
    ELSE "none"

\* A session's script is running a register_user call: it takes no other
\* event until the call returns.
Idle(s) == reg[s] = None

\* "Go to Register" and "Go to Login" on the authentication pages.
go_to_register(s) ==
    /\ Idle(s) /\ Page(s) = "auth" /\ ui[s].auth_page # "register"
    /\ ui' = [ui EXCEPT ![s].auth_page = "register"]
    /\ UNCHANGED <<db, reg, last, schema, locked, open>>

go_to_login(s) ==
    /\ Idle(s) /\ Page(s) = "auth" /\ ui[s].auth_page = "register"
    /\ ui' = [ui EXCEPT ![s].auth_page = "login"]
    /\ UNCHANGED <<db, reg, last, schema, locked, open>>

\* The Login button: a warning for an empty username or a password that
\* validate_password turns down; else validate_user, and on a truthy result
\* logged_in and user_id are set.
login(s, username, password) ==
    /\ Idle(s) /\ Page(s) = "auth" /\ ui[s].auth_page # "register"
    /\ IF username = "" \/ ~validate_password(password)
       THEN UNCHANGED <<db, reg, last, schema, locked, open, ui>>
       ELSE /\ validate_user(username, password)
            /\ ui' = IF ~last'.raised /\ Truthy(last'.result)
                     THEN [ui EXCEPT ![s].logged_in = TRUE, ![s].user_id = last'.result]
                     ELSE ui

\* The Logout button of the sidebar, on any page of a logged-in session: every
\* key of st.session_state is deleted and set to its default again.
logout(s) ==
    /\ Idle(s) /\ ui[s].logged_in
    /\ ui' = [ui EXCEPT ![s] = SessionDefaults]
    /\ UNCHANGED <<db, reg, last, schema, locked, open>>

\* The choices of the "Filter Status" selectbox.
Filters == {"All"} \cup Statuses

\* t[7], task[7], current_task[7]: where app.py reads the status of a row.
StatusIndex == 7

\* Python's row[k] on a fetched row: defined for 0 <= k < len(row).
Subscriptable(row, k) == k + 1 \in DOMAIN row
Subscript(row, k) == row[k + 1]

\* task_dashboard from the loading of the tasks to the cards: the rows it
\* renders a card for, and the message of the exception its except clause
\* reports instead. A filter other than "All" calls get_tasks_by_status, a
\* function of one parameter, with two arguments (user_id, status_filter):
\* TypeError. The statistics read t[7] of every loaded row (IndexError on a
\* row of fewer columns) before any card is rendered.
Dashboard(user_id, status_filter) ==
    IF status_filter # "All"
    THEN [cards |-> <<>>,
          error |-> "Error loading tasks: get_tasks_by_status() takes 1 positional argument but 2 were given"]
    ELSE LET loaded == get_tasks_by_user_id(user_id[1])
         IN  IF \E k \in 1..Len(loaded) : ~Subscriptable(loaded[k], StatusIndex)
             THEN [cards |-> <<>>, error |-> "Error loading tasks: tuple index out of range"]
             ELSE [cards |-> loaded, error |-> ""]

\* A run of the dashboard page with this filter chosen: last.rows are the
\* cards rendered, last.msg the error reported.
task_dashboard(s, status_filter) ==
    /\ Idle(s) /\ Page(s) = "dashboard"
    /\ LET d == Dashboard(ui[s].user_id, status_filter)
       IN  last' = [op |-> "task_dashboard", key |-> status_filter, args |-> <<>>,
                    id |-> ui[s].user_id, result |-> None, msg |-> d.error,
                    raised |-> FALSE, rowcount |-> 0, rows |-> d.cards]
    /\ UNCHANGED <<db, reg, schema, locked, open, ui>>

\* "Add New Task" in the sidebar of the dashboard.
add_new_task(s) ==
    /\ Idle(s) /\ Page(s) = "dashboard"
    /\ ui' = [ui EXCEPT ![s].edit_task_id = None, ![s].current_page = "task_form"]
    /\ UNCHANGED <<db, reg, last, schema, locked, open>>

\* The three controls of the k-th card the dashboard renders: edit, delete,
\* and the status selectbox set to another status.
edit_card(s, status_filter, k) ==
    /\ Idle(s) /\ Page(s) = "dashboard"
    /\ k \in 1..Len(Dashboard(ui[s].user_id, status_filter).cards)
    /\ LET task == Dashboard(ui[s].user_id, status_filter).cards[k]
       IN  ui' = [ui EXCEPT ![s].edit_task_id = Some(Subscript(task, 0)),
                            ![s].current_page = "task_form"]
    /\ UNCHANGED <<db, reg, last, schema, locked, open>>

delete_card(s, status_filter, k) ==
    /\ Idle(s) /\ Page(s) = "dashboard"
    /\ k \in 1..Len(Dashboard(ui[s].user_id, status_filter).cards)
    /\ LET task == Dashboard(ui[s].user_id, status_filter).cards[k]
       IN  delete_task(Subscript(task, 0))
    /\ UNCHANGED ui

status_card(s, status_filter, k, new_status) ==
    /\ Idle(s) /\ Page(s) = "dashboard"
    /\ k \in 1..Len(Dashboard(ui[s].user_id, status_filter).cards)
    /\ LET task == Dashboard(ui[s].user_id, status_filter).cards[k]
       IN  /\ new_status # Subscript(task, StatusIndex)
           /\ update_task_with_status(Subscript(task, 0),
                                       Field(Subscript(task, 2), Subscript(task, 3),
                                             Subscript(task, 4), Subscript(task, 5),
                                             new_status))
    /\ UNCHANGED ui

\* "Back to Dashboard" on the task form page.
back_to_dashboard(s) ==
    /\ Idle(s) /\ Page(s) = "task_form"
    /\ ui' = [ui EXCEPT ![s].current_page = "dashboard"]
    /\ UNCHANGED <<db, reg, last, schema, locked, open>>

\* if st.session_state.edit_task_id: (not None, not 0)
Editing(s) == Page(s) = "task_form" /\ Truthy(ui[s].edit_task_id)

\* The edit form finds no task of the id: back to the dashboard.
edit_not_found(s) ==
    /\ Idle(s) /\ Editing(s)
    /\ get_task_by_id(ui[s].edit_task_id[1]) = None
    /\ ui' = [ui EXCEPT ![s].edit_task_id = None, ![s].current_page = "dashboard"]
    /\ UNCHANGED <<db, reg, last, schema, locked, open>>

\* The edit form is rendered: the task is found and its row has the fields the
\* form reads, current_task[7] the last of them (else the run ends in an
\* IndexError before the form has its buttons).
EditForm(s) ==
    /\ Idle(s) /\ Editing(s)
    /\ get_task_by_id(ui[s].edit_task_id[1]) # None
    /\ Subscriptable(get_task_by_id(ui[s].edit_task_id[1])[1], StatusIndex)

\* "Update Task" on the edit form: on success back to the dashboard, on an
\* exception the form stays.
update_task(s, f) ==
    /\ EditForm(s)
    /\ update_task_with_status(ui[s].edit_task_id[1], f)
    /\ ui' = IF last'.raised THEN ui
             ELSE [ui EXCEPT ![s].edit_task_id = None, ![s].current_page = "dashboard"]

\* "Cancel" on the edit form.
cancel_edit(s) ==
    /\ EditForm(s)
    /\ ui' = [ui EXCEPT ![s].edit_task_id = None, ![s].current_page = "dashboard"]
    /\ UNCHANGED <<db, reg, last, schema, locked, open>>

\* "Add Task" on the add form, for the user of the session: on success back to
\* the dashboard, on an exception the form stays.
add_task(s, f) ==
    /\ Idle(s) /\ Page(s) = "task_form" /\ ~Truthy(ui[s].edit_task_id)
    /\ add_task_with_status(ui[s].user_id[1], f)
    /\ ui' = IF last'.raised THEN ui ELSE [ui EXCEPT ![s].current_page = "dashboard"]

\* ---------------------------------------------------------- specifications

\* create_tables() on a fresh database file: both tables exist and are empty.
Init ==
    /\ users = {}
    /\ userSeq = 0
    /\ tasks = {}
    /\ taskSeq = 0
    /\ createdIds = {}
    /\ reg = [s \in Sessions |-> None]
    /\ last = NoCall
    /\ schema = Tables
    /\ locked = FALSE
    /\ open = 0
    /\ ui = [s \in Sessions |-> SessionDefaults]

\* The functions of user_auth.py, called outside any page.
AuthNext ==
    \/ \E s \in Sessions, e \in Emails, p \in Passwords, u \in Usernames :
          register_user_check(s, e, p, u) /\ UNCHANGED ui
    \/ \E s \in Sessions : register_user_insert(s) /\ UNCHANGED ui
    \/ \E u \in Usernames, p \in Passwords : validate_user(u, p) /\ UNCHANGED ui
    \/ \E e \in Emails, p \in Passwords : login_user(e, p) /\ UNCHANGED ui

\* Credential management alone: the tasks table stays empty.
AuthSpec == Init /\ [][AuthNext]_vars

\* The writing functions of task.py, called outside any page.
TaskNext ==
    \/ \E o \in OwnerIds, f \in FieldTuples : add_task_with_status(o, f) /\ UNCHANGED ui
    \/ \E i \in TaskIds, f \in FieldTuples : update_task_with_status(i, f) /\ UNCHANGED ui
    \/ \E i \in TaskIds : delete_task(i) /\ UNCHANGED ui

\* A database in which two users have registered.
InitTask ==
    /\ users = {[id |-> 1, username |-> "ann", email |-> "ann@x.io",
                 password |-> hash_password("pw!01", "$2b$12$saltA")],
                [id |-> 2, username |-> "bob", email |-> "bob@x.io",
                 password |-> hash_password("pw!02", "$2b$12$saltB")]}
    /\ userSeq = 2
    /\ tasks = {}
    /\ taskSeq = 0
    /\ createdIds = {}
    /\ reg = [s \in Sessions |-> None]
    /\ last = NoCall
    /\ schema = Tables
    /\ locked = FALSE
    /\ open = 0
    /\ ui = [s \in Sessions |-> SessionDefaults]

\* The task repository alone, on the database of two registered users.
TaskSpec == InitTask /\ [][TaskNext]_vars

\* The field tuples the storage specification draws from: two that differ in
\* every field, and a None title.
StoreFields ==
    { Field("Buy milk", "", <<2025, 3, 1>>, "Low", "Pending"),
      Field("Pay rent", "by transfer", <<2025, 1, 15>>, "Medium", "Completed"),
      Field(NoneText, "", <<2025, 3, 1>>, "Low", "Pending") }

\* database.py and task.py on a database file another process may lock.
StoreNext ==
    \/ create_tables /\ UNCHANGED ui
    \/ lock /\ UNCHANGED ui
    \/ unlock /\ UNCHANGED ui
    \/ \E o \in OwnerIds, f \in StoreFields : add_task_with_status(o, f) /\ UNCHANGED ui
    \/ \E i \in TaskIds, f \in StoreFields : update_task_with_status(i, f) /\ UNCHANGED ui
    \/ \E i \in TaskIds : delete_task(i) /\ UNCHANGED ui
    \/ \E q \in Queries : \E a \in QueryArgs(q) : task_query(q, a) /\ UNCHANGED ui

\* A database file that does not exist yet: sqlite3.connect creates it, empty.
InitStore ==
    /\ users = {}
    /\ userSeq = 0
    /\ tasks = {}
    /\ taskSeq = 0
    /\ createdIds = {}
    /\ reg = [s \in Sessions |-> None]
    /\ last = NoCall
    /\ schema = {}
    /\ locked = FALSE
    /\ open = 0
    /\ ui = [s \in Sessions |-> SessionDefaults]

StoreSpec == InitStore /\ [][StoreNext]_vars

\* The first starts of the application on a new database file: create_tables
\* (main calls it on every run of the script) at any point among the
\* registrations of one user by several sessions and the task writes.
SchemaNext ==
    \/ create_tables /\ UNCHANGED ui
    \/ \E s \in Sessions : register_user_check(s, "ann@x.io", "pw!01", "ann") /\ UNCHANGED ui
    \/ \E s \in Sessions : register_user_insert(s) /\ UNCHANGED ui
    \/ \E f \in StoreFields : add_task_with_status(1, f) /\ UNCHANGED ui
    \/ \E i \in TaskIds, f \in StoreFields : update_task_with_status(i, f) /\ UNCHANGED ui
    \/ \E i \in TaskIds : delete_task(i) /\ UNCHANGED ui

SchemaSpec == InitStore /\ [][SchemaNext]_vars

\* Every function that opens a connection, on a database file another
\* process may lock: create_tables, register_user, validate_user, the writing
\* functions (execute_query) and a query function (fetch_query).
ConnNext ==
    \/ create_tables /\ UNCHANGED ui
    \/ lock /\ UNCHANGED ui
    \/ unlock /\ UNCHANGED ui
    \/ \E s \in Sessions : register_user_check(s, "ann@x.io", "pw!01", "ann") /\ UNCHANGED ui
    \/ \E s \in Sessions : register_user_insert(s) /\ UNCHANGED ui
    \/ \E p \in Passwords : validate_user("ann", p) /\ UNCHANGED ui
    \/ \E f \in StoreFields : add_task_with_status(1, f) /\ UNCHANGED ui
    \/ \E i \in TaskIds : delete_task(i) /\ UNCHANGED ui
    \/ \E i \in TaskIds : task_query("get_task_by_id", <<i>>) /\ UNCHANGED ui

ConnSpec == InitStore /\ [][ConnNext]_vars

\* The field tuples the forms of the UI session specification submit: the
\* title is the text of a text_input (never None, "" when nothing is typed);
\* priority and status come from selectboxes.
FormFields ==
    { Field("Buy milk", "", <<2025, 3, 1>>, "Low", "Pending"),
      Field("", "by transfer", <<2025, 1, 15>>, "Medium", "Completed") }

\* The events of the UI sessions that can reach their handler.
UiNext ==
    \/ \E s \in Sessions : go_to_register(s)
    \/ \E s \in Sessions : go_to_login(s)
    \/ \E s \in Sessions, u \in FormUsernames, p \in FormPasswords : login(s, u, p)
    \/ \E s \in Sessions : logout(s)
    \/ \E s \in Sessions, fl \in Filters : task_dashboard(s, fl)
    \/ \E s \in Sessions : add_new_task(s)
    \/ \E s \in Sessions : back_to_dashboard(s)
    \/ \E s \in Sessions, f \in FormFields : add_task(s, f)

\* Several sessions of the application on the database of two registered users.
UiSpec == InitTask /\ [][UiNext]_vars

\* The controls of the task cards and of the edit form.
CardNext ==
    \/ \E s \in Sessions, fl \in Filters, k \in TaskIds : edit_card(s, fl, k)
    \/ \E s \in Sessions, fl \in Filters, k \in TaskIds : delete_card(s, fl, k)
    \/ \E s \in Sessions, fl \in Filters, k \in TaskIds, st \in Statuses :
          status_card(s, fl, k, st)
    \/ \E s \in Sessions : edit_not_found(s)
    \/ \E s \in Sessions, f \in FormFields : update_task(s, f)
    \/ \E s \in Sessions : cancel_edit(s)

\* The whole UI: the events above and the controls of the cards.
AppSpec == InitTask /\ [][UiNext \/ CardNext]_vars

Next == AuthNext \/ TaskNext \/ StoreNext \/ SchemaNext \/ ConnNext \/ UiNext \/ CardNext

Spec == Init /\ [][Next]_vars

\* ------------------------------------------------------------ C1 .. C5

\* A user row whose stored hash was made from this password.
Holds(r, password) == verify_password(password, r.password)

\* C1 (as claimed): a registration whose email and username no user holds
\* succeeds, and from then on every authenticate call (validate_user by the
\* username, login_user by the email) with the registered password returns
\* the identifier of the row that registration created, without raising.
C1_RegisterThenAuthenticate ==
    [][/\ \A s \in Sessions :
            register_user_insert(s) /\ UsersUnique(users, reg[s][1].username, reg[s][1].email) = {}
            => /\ last'.msg = RegisteredOk
               /\ \E r \in users' \ users :
                     /\ r.email = reg[s][1].email /\ r.username = reg[s][1].username
                     /\ Holds(r, reg[s][1].password)
                     /\ last'.id = Some(r.id)
       /\ \A r \in users, p \in Passwords :
            Holds(r, p)
            => /\ validate_user(r.username, p) => last'.result = Some(r.id) /\ ~last'.raised
               /\ login_user(r.email, p) => last'.result = Some(r.id) /\ ~last'.raised]_vars

\* C1, the part the code keeps: the same statement for validate_user alone,
\* the authenticate function app.py calls.
C1_RegisterThenValidateUser ==
    [][/\ \A s \in Sessions :
            register_user_insert(s) /\ UsersUnique(users, reg[s][1].username, reg[s][1].email) = {}
            => /\ last'.msg = RegisteredOk
               /\ \E r \in users' \ users :
                     /\ r.email = reg[s][1].email /\ r.username = reg[s][1].username
                     /\ Holds(r, reg[s][1].password)
                     /\ last'.id = Some(r.id)
       /\ \A r \in users, p \in Passwords :
            Holds(r, p) /\ validate_user(r.username, p)
            => last'.result = Some(r.id) /\ ~last'.raised]_vars

\* A registered user has just been authenticated by validate_user.
C1_Witness ==
    /\ last.op = "validate_user"
    /\ \E r \in users : r.username = last.key /\ last.result = Some(r.id)

\* C2: once a row with email e exists, a register_user call with email e
\* (any username, any password) returns "Email already registered" at its
\* pre-check and leaves the users table and its id counter as they were.
C2_DuplicateEmailRejected ==
    [][\A e \in Emails, s \in Sessions :
          /\ \E r \in users : r.email = e
          /\ reg[s] = None /\ (reg'[s] # None \/ last'.op = "register_user")
          => \A p \in Passwords, u \in Usernames :
                register_user_check(s, e, p, u)
                => /\ last' = Returned("register_user", e, None, None, EmailTaken, FALSE, 0)
                   /\ reg'[s] = None
                   /\ users' = users /\ userSeq' = userSeq]_vars

\* A call with a registered email and a username nobody holds was turned down.
C2_Witness ==
    /\ last.op = "register_user" /\ last.msg = EmailTaken
    /\ \E r \in users : r.email = last.key
    /\ Cardinality(users) = 1
    /\ \A s \in Sessions : reg[s] = None

\* C3: no two rows of users share a username, an email or an id.
C3_UsersUnique ==
    \A r1, r2 \in users :
        r1 # r2 => r1.username # r2.username /\ r1.email # r2.email /\ r1.id # r2.id

\* Two registrations raced: both passed the pre-check, the store rejected the
\* second INSERT on the email's UNIQUE constraint.
C3_Witness ==
    /\ last.op = "register_user" /\ last.msg = RegistrationError("email")
    /\ \E r \in users : r.email = last.key

\* C4 (as claimed): a register_user call whose username is held and whose
\* email is new returns the duplicate outcome of a duplicate email, and adds
\* no row.
C4_DuplicateUsernameIsDuplicateCredential ==
    [][\A s \in Sessions :
          /\ register_user_insert(s)
          /\ \E r \in users : r.username = reg[s][1].username
          /\ ~ \E r \in users : r.email = reg[s][1].email
          => last'.msg = EmailTaken /\ users' = users]_vars

\* C4, what the code does instead: that call returns the generic failure "Registration error:
\* UNIQUE constraint failed: users.username", and adds no row.
C4_DuplicateUsernameIsRegistrationError ==
    [][\A s \in Sessions :
          /\ register_user_insert(s)
          /\ \E r \in users : r.username = reg[s][1].username
          /\ ~ \E r \in users : r.email = reg[s][1].email
          => /\ last'.msg = RegistrationError("username")
             /\ last'.msg # EmailTaken /\ last'.msg # RegisteredOk
             /\ users' = users /\ userSeq' = userSeq]_vars

\* A call with a held username and a new email has returned.
C4_Witness ==
    /\ last.op = "register_user" /\ last.msg = RegistrationError("username")
    /\ ~ \E r \in users : r.email = last.key

\* C5: validate_user returns None, without raising, both for a registered
\* username with a wrong password and for a username no user has; the caller
\* gets the same outcome in both cases, and no table changes.
C5_InvalidCredentialsAlike ==
    [][\A u \in Usernames, p \in Passwords :
          /\ last'.op = "validate_user" /\ last'.key = u
          /\ ~ (\E r \in users : r.username = u /\ Holds(r, p))
          /\ validate_user(u, p)
          => /\ last'.result = None /\ ~last'.raised /\ last'.msg = ""
             /\ last' = Returned("validate_user", u, None, None, "", FALSE, 0)
             /\ users' = users /\ userSeq' = userSeq
             /\ tasks' = tasks /\ taskSeq' = taskSeq]_vars

\* validate_user has just returned None for a registered username (so the
\* password was wrong) while another username of the domain is unregistered.
C5_Witness ==
    /\ last.op = "validate_user" /\ last.result = None
    /\ \E r \in users : r.username = last.key
    /\ \E u \in Usernames : ~ \E r \in users : r.username = u

\* ------------------------------------------------------------ C6 .. C10

\* A field tuple whose title is a text, as the data model types it.
Typed(f) == f.title # NoneText

\* The fetched row get_task_by_id gives for task i', if any, carries owner o and tuple f.
ReadsBack(got, i, o, f) == got = Some(RowTuple(TaskRow(i, o, f)))

\* C6 (as claimed): create returns a task identifier that no task created
\* before had, and get_by_id on it returns the owner and the five fields
\* passed to create.
C6_CreateReturnsFreshId ==
    [][\A o \in OwnerIds, f \in FieldTuples :
          /\ last'.op = "add_task_with_status" /\ last'.args = <<f>>
          /\ Typed(f)
          /\ add_task_with_status(o, f)
          => \E i \in TaskIds :
                /\ last'.result = Some(i)
                /\ i \notin createdIds
                /\ ReadsBack(get_task_by_id(i)', i, o, f)]_vars

\* C6 (amended): add_task_with_status returns None; the row it inserts gets a
\* generated id that no task created before had (deleted ones included), and
\* get_task_by_id on that id returns the owner and the five fields passed.
C6_CreateRoundTrip ==
    [][\A o \in OwnerIds, f \in FieldTuples :
          /\ last'.op = "add_task_with_status" /\ last'.args = <<f>>
          /\ Typed(f)
          /\ add_task_with_status(o, f)
          => /\ last'.result = None /\ ~last'.raised
             /\ \E i \in TaskIds :
                   /\ last'.id = Some(i)
                   /\ i \notin createdIds
                   /\ tasks' = tasks \cup {TaskRow(i, o, f)}
                   /\ ReadsBack(get_task_by_id(i)', i, o, f)]_vars

\* A task has just been created after an earlier task was deleted.
C6_Witness ==
    /\ last.op = "add_task_with_status" /\ ~last.raised
    /\ get_task_by_id(last.id[1]) # None
    /\ \E i \in createdIds : i < last.id[1] /\ get_task_by_id(i) = None

\* C7: update_task_with_status on an existing id, followed by get_task_by_id,
\* returns a row whose title, description, due_date, priority and status are
\* the values passed, whatever the row held before (every status to every
\* status); the row keeps its id.
C7_UpdateRoundTrip ==
    [][last'.op = "update_task_with_status"
       => LET i == last'.id[1]
              f == last'.args[1]
              got == TaskById(tasks', i)
          IN  Typed(f) /\ (\E r \in tasks : r.id = i) /\ update_task_with_status(i, f)
              => /\ ~last'.raised
                 /\ got # None
                 /\ got[1][Col("id")] = i
                 /\ got[1][Col("title")] = f.title
                 /\ got[1][Col("description")] = f.description
                 /\ got[1][Col("due_date")] = f.due_date
                 /\ got[1][Col("priority")] = f.priority
                 /\ got[1][Col("status")] = f.status]_vars

\* An existing task has just been updated and now reads back as Completed
\* with the description and priority of the last tuple of FieldTuples.
C7_Witness ==
    /\ last.op = "update_task_with_status" /\ ~last.raised /\ last.rowcount = 1
    /\ get_task_by_id(last.id[1]) # None
    /\ get_task_by_id(last.id[1])[1][Col("status")] = "Completed"
    /\ get_task_by_id(last.id[1])[1][Col("priority")] = "Medium"

\* C8: after delete_task(i), get_task_by_id(i) returns None; delete_task does
\* not raise, and on an id that has no row (deleted before, or never
\* created) it leaves the tasks table and its id counter as they were.
C8_DeleteThenGet ==
    [][\A i \in TaskIds :
          /\ last'.op = "delete_task" /\ last'.id = Some(i)
          /\ delete_task(i)
          => /\ get_task_by_id(i)' = None
             /\ ~last'.raised
             /\ (get_task_by_id(i) = None => tasks' = tasks /\ taskSeq' = taskSeq)]_vars

\* The task just deleted had been deleted before: its id was created, the
\* statement removed no row.
C8_Witness ==
    /\ last.op = "delete_task" /\ last.rowcount = 0 /\ ~last.raised
    /\ last.id[1] \in createdIds
    /\ tasks # {}

Elems(seq) == {seq[k] : k \in 1..Len(seq)}

\* C9 (as claimed): get_tasks_by_user_id(owner) is exactly the rows stored with
\* that user_id, in ascending order of due_date.
C9_ListByOwnerByDueDate ==
    \A o \in OwnerIds :
        LET l == get_tasks_by_user_id(o)
        IN  /\ Elems(l) = {RowTuple(r) : r \in {x \in tasks : x.user_id = o}}
            /\ \A j, k \in 1..Len(l) :
                   j < k => DateLE(l[j][Col("due_date")], l[k][Col("due_date")])

\* C9, the part the code keeps: exactly the rows stored with that user_id,
\* each once, in ascending order of id.
C9_ListByOwnerById ==
    \A o \in OwnerIds :
        LET l == get_tasks_by_user_id(o)
        IN  /\ Elems(l) = {RowTuple(r) : r \in {x \in tasks : x.user_id = o}}
            /\ \A j, k \in 1..Len(l) : j < k => l[j][Col("id")] < l[k][Col("id")]

\* Keep the rows of a fetched list whose status is the given one.
FilterByStatus(l, status) ==
    LET Keep(row) == row[Col("status")] = status
    IN  SelectSeq(l, Keep)

\* C10 (as claimed): the status-filtered list for an owner, which the code
\* takes from get_tasks_by_status(status), is the owner's list filtered by
\* status, in the same order, and holds no task of another user.
C10_ListByOwnerAndStatus ==
    \A o \in OwnerIds, s \in Statuses :
        /\ get_tasks_by_status(s) = FilterByStatus(get_tasks_by_user_id(o), s)
        /\ \A k \in 1..Len(get_tasks_by_status(s)) :
               get_tasks_by_status(s)[k][Col("user_id")] = o

\* ------------------------------------------------------------ C11 .. C14

\* This step is a call of a writing function of task.py (each runs its one
\* statement through execute_query).
WriteCalled ==
    \/ /\ last'.op = "add_task_with_status"
       /\ \E o \in OwnerIds : add_task_with_status(o, last'.args[1])
    \/ /\ last'.op = "update_task_with_status"
       /\ update_task_with_status(last'.id[1], last'.args[1])
    \/ /\ last'.op = "delete_task"
       /\ delete_task(last'.id[1])

\* The statement of that call fails: the database is locked, the tasks table
\* is missing, or the row it writes would get a NULL title.
WriteFails ==
    \/ locked
    \/ "tasks" \notin schema
    \/ /\ last'.op = "add_task_with_status"
       /\ last'.args[1].title = NoneText
    \/ /\ last'.op = "update_task_with_status"
       /\ last'.args[1].title = NoneText
       /\ \E r \in tasks : r.id = last'.id[1]

\* C11: when the statement a writing function runs through execute_query
\* fails, the call raises with the error of the store, and the users and tasks
\* tables and their id counters are as before the call; a call raises only
\* when its statement fails.
C11_ExecuteFailureRaised ==
    [][WriteCalled
       => /\ WriteFails => last'.raised /\ last'.msg # "" /\ db' = db
          /\ last'.raised => WriteFails]_vars

\* An INSERT with a NULL title has just been rejected while the table holds a
\* row.
C11_Witness ==
    /\ last.op = "add_task_with_status" /\ last.raised
    /\ last.msg = IntegrityError("title")
    /\ tasks # {}

\* This step is a call of a query function of task.py.
QueryCalled == last'.op \in Queries /\ task_query(last'.op, last'.args)

C13_EnsureSchemaIdempotent ==
    [][last'.op = "create_tables" /\ create_tables
       => /\ schema = Tables => ~last'.raised
          /\ "users" \in schema => users' = users /\ userSeq' = userSeq
          /\ "tasks" \in schema => tasks' = tasks /\ taskSeq' = taskSeq
          /\ ~last'.raised => schema' = Tables]_vars

\* create_tables has just returned on a database that holds a user and a task.
C13_Witness ==
    /\ last.op = "create_tables" /\ ~last.raised
    /\ users # {} /\ tasks # {}

\* The register_user calls in progress (between their SELECT and their
\* INSERT); every other function is one step.
InProgress == {s \in Sessions : reg[s] # None}

\* C14 (as claimed): whenever no operation is in progress, no connection is
\* open.
C14_ConnectionsReleased == InProgress = {} => open = 0

\* C14, the part the code keeps: every function but create_tables closes the
\* connection it opened, on every path: over a step of any of them, the
\* connections open beyond those of the calls in progress stay as many.
C14_OthersRelease ==
    [][~create_tables
       => open' - Cardinality(InProgress') = open - Cardinality(InProgress)]_vars

\* ------------------------------------------------------------ C15 .. C18

\* C15 (as claimed): every stored task has an owner that is a row of users, a
\* title that is a non-empty text, a priority of Low, Medium, High and a status
\* of Pending, To Do, In Progress, Completed.
C15_TaskInvariants ==
    \A r \in tasks :
        /\ \E u \in users : u.id = r.user_id
        /\ r.title # NoneText /\ r.title # ""
        /\ r.priority \in Priorities
        /\ r.status \in Statuses

\* C15, the part the store keeps: no stored task has a NULL title (title TEXT
\* NOT NULL).
C15_TitleNotNull == \A r \in tasks : r.title # NoneText

\* C16: update_task_with_status(i, ...) and delete_task(i) leave every tasks
\* row whose id is not i, every users row and both id counters as they were;
\* update keeps the ids and the owners of all rows (the one it rewrites
\* included), and on an id that has no row it changes nothing and does not
\* raise.
C16_UpdateDeleteFrame ==
    [][last'.op \in {"update_task_with_status", "delete_task"}
       => LET i == last'.id[1]
              updated == /\ last'.op = "update_task_with_status"
                         /\ update_task_with_status(i, last'.args[1])
              deleted == last'.op = "delete_task" /\ delete_task(i)
          IN  updated \/ deleted
              => /\ {r \in tasks' : r.id # i} = {r \in tasks : r.id # i}
                 /\ users' = users /\ userSeq' = userSeq /\ taskSeq' = taskSeq
                 /\ updated
                    => /\ {<<r.id, r.user_id>> : r \in tasks'}
                            = {<<r.id, r.user_id>> : r \in tasks}
                       /\ (~ \E r \in tasks : r.id = i) => tasks' = tasks /\ ~last'.raised]_vars

\* One of two stored tasks, of different owners, has just been rewritten.
C16_Witness ==
    /\ last.op = "update_task_with_status" /\ last.rowcount = 1
    /\ \E r1, r2 \in tasks : r1.user_id # r2.user_id /\ r1.id = last.id[1]

\* C17 (as claimed): every update or delete a session issues through the
\* cards or the edit form targets a task whose user_id is the user_id of the
\* session, and every card the dashboard renders for a session shows a task of
\* that user.
C17_UiEnforcesOwnership ==
    [][\A s \in Sessions :
          /\ \/ \E fl \in Filters, k \in TaskIds :
                   \/ delete_card(s, fl, k)
                   \/ \E st \in Statuses : status_card(s, fl, k, st)
             \/ \E f \in FormFields : update_task(s, f)
             => \A r \in tasks : r.id = last'.id[1] => Some(r.user_id) = ui[s].user_id
          /\ \A fl \in Filters :
                task_dashboard(s, fl)
                => \A k \in 1..Len(last'.rows) :
                      Some(Subscript(last'.rows[k], 1)) = ui[s].user_id]_vars

\* C17, why it holds: on the tasks table create_tables makes (seven columns)
\* the dashboard never renders a card, whatever the filter, so no session ever
\* has a card control to press, and edit_task_id is never set.
C17_NoCardNoEdit ==
    /\ \A s \in Sessions : ui[s].edit_task_id = None
    /\ \A s \in Sessions, fl \in Filters :
          ui[s].logged_in => Dashboard(ui[s].user_id, fl).cards = <<>>

\* A logged-in session whose user has a task: its dashboard with filter "All"
\* reports "tuple index out of range" in place of the card.
C17_DashboardFails ==
    \A s \in Sessions :
        ui[s].logged_in /\ get_tasks_by_user_id(ui[s].user_id[1]) # <<>>
        => Dashboard(ui[s].user_id, "All").error # ""

\* C18: over every step of the UI sessions, for every session:
\*   - logged_in goes with a user_id that is not None, and its absence with
\*     user_id None;
\*   - logged_in becomes true only in a step of the Login button of that
\*     session in which validate_user returned, for the username and password
\*     of a registered user, the id of that user, and user_id is that id;
\*   - while the session stays logged in, user_id does not change;
\*   - a Login whose validate_user returned None leaves the session as it
\*     was, logged_in false and user_id None;
\*   - Logout resets the session to logged_in false, user_id None,
\*     edit_task_id None, auth_page login, current_page dashboard;
\*   - the page rendered changes from the authentication pages to a task page
\*     only in such a successful Login step.
C18_SessionState ==
    [][\A s \in Sessions :
          LET LoggedInBy(username) ==
                  /\ last'.op = "validate_user" /\ ~last'.raised
                  /\ last'.key = username
                  /\ ui'[s].user_id = last'.result
                  /\ \E pw \in FormPasswords, r \in users :
                        /\ login(s, username, pw)
                        /\ r.username = username /\ Holds(r, pw)
                        /\ last'.result = Some(r.id)
          IN  /\ ui'[s].logged_in <=> ui'[s].user_id # None
              /\ ~ui[s].logged_in /\ ui'[s].logged_in => LoggedInBy(last'.key)
              /\ ui[s].logged_in /\ ui'[s].logged_in => ui'[s].user_id = ui[s].user_id
              /\ /\ last'.op = "validate_user" /\ last'.result = None
                 /\ \E pw \in FormPasswords : login(s, last'.key, pw)
                 => ui'[s] = ui[s] /\ ~ui'[s].logged_in /\ ui'[s].user_id = None
              /\ logout(s)
                 => /\ ui'[s] = [logged_in |-> FALSE, user_id |-> None,
                                 edit_task_id |-> None, show_task_form |-> FALSE,
                                 auth_page |-> "login", current_page |-> "dashboard"]
                    /\ Page(s)' = "auth"
              /\ Page(s) = "auth" /\ Page(s)' # "auth" => LoggedInBy(last'.key)]_vars

\* A Login has just failed on the password of a registered user, in a session
\* that stays logged out, while another session is logged in.
C18_Witness ==
    /\ last.op = "validate_user" /\ last.result = None
    /\ \E r \in users : r.username = last.key
    /\ \E s1, s2 \in Sessions :
          /\ ui[s1].logged_in /\ ui[s1].user_id # None
          /\ ~ui[s2].logged_in /\ ui[s2].user_id = None

====
